---- MODULE Spec2Model ----
(***************************************************************************)
(* TensorCache (src/src/tensor_cache/cache.py): a cache of numpy arrays    *)
(* kept as zarr arrays under a sharded path.  The model holds the cache    *)
(* instance, the stores zarr and shutil act on, and the callers of set,    *)
(* get, exists and delete.                                                 *)
(*                                                                         *)
(* A zarr array at a path is a directory holding a metadata document       *)
(* (zarr.json) and one chunk object per chunk (c/0 for a 1-D array,        *)
(* c/0/0 for a 2-D one); the arrays of the model fit one chunk.            *)
(***************************************************************************)
EXTENDS Integers, Sequences, FiniteSets, TLC

VARIABLES cache, fs, last, lastw, proc

vars == <<cache, fs, last, lastw, proc>>

----------------------------------------------------------------------------
(* Bounds of the model *)

\* number of concurrent callers
NumCallers == 2

\* calls the concurrent callers make in all
MaxCalls == 3

----------------------------------------------------------------------------
(* Strings.  A path is a sequence of segments (the parts between "/"), a   *)
(* segment a sequence of tokens whose concatenation is its text, so that   *)
(* appending ".zarr" and splitting at "/" are what they are in the code.   *)

KeyA == << <<"a">> >>
KeyB == << <<"b">> >>
\* the key "a.zarr/138677"
KeyNested == << <<"a", ".zarr">>, <<"138677">> >>

Keys == {KeyA, KeyB, KeyNested}

\* hashlib.sha256(item_id.encode()).digest().hex(), its first characters
HexHash(item_id) ==
    CASE item_id = KeyA -> <<"c", "a", "9", "7", "8", "1">>
      [] item_id = KeyB -> <<"3", "e", "2", "3", "e", "8">>
      [] item_id = KeyNested -> <<"c", "a", "9", "7", "b", "5">>

Front(s) == SubSeq(s, 1, Len(s) - 1)
Last(s) == s[Len(s)]

\* base_path as given to the constructor: scheme is the text before "://"
\* ("" when there is none), dir the rest without trailing "/"
BasePaths ==
    { [scheme |-> "", dir |-> "/tmp/cache"],
      [scheme |-> "file", dir |-> "/tmp/cache"],
      [scheme |-> "s3", dir |-> "bucket/cache"] }

StorageOptions == {"None"}

CheckIsRemote(path) == path.scheme # "" /\ path.scheme # "file"

TensorCacheInit(base_path, storage_options) ==
    [ base_path |-> base_path,
      storage_options |-> storage_options,
      is_remote |-> CheckIsRemote(base_path) ]

\* the part of f"{base_path}/{shard_1}/{shard_2}/{item_id}.zarr" after
\* base_path, split at "/"
\* a path with one level of sharding
GetShardPathOneLevel(item_id) ==
    LET hex_hash == HexHash(item_id)
        shard_1 == SubSeq(hex_hash, 1, 2)
    IN <<shard_1>> \o Front(item_id) \o << Last(item_id) \o <<".zarr">> >>

GetShardPath(item_id) ==
    LET hex_hash == HexHash(item_id)
        shard_1 == SubSeq(hex_hash, 1, 2)
        shard_2 == SubSeq(hex_hash, 3, 4)
    IN <<shard_1, shard_2>>
           \o Front(item_id) \o << Last(item_id) \o <<".zarr">> >>

\* the path string a handler works on: base_path and the part after it
PathStr(c, zarr_path) == [base |-> c.base_path, rel |-> zarr_path]

Locs == { GetShardPath(k) : k \in Keys }

IsPrefix(p, q) == Len(p) <= Len(q) /\ SubSeq(q, 1, Len(p)) = p

----------------------------------------------------------------------------
(* Arrays, dtypes and their byte layout *)

DTypes == {"uint8", "int16"}

ItemSize(dtype) == IF dtype = "uint8" THEN 1 ELSE 2

Arr(shape, dtype, data) == [shape |-> shape, dtype |-> dtype, data |-> data]

\* the arrays callers store; data is in row-major order
ArrU2a == Arr(<<2>>, "uint8", <<1, 2>>)
ArrU2b == Arr(<<2>>, "uint8", <<3, 4>>)
ArrI1 == Arr(<<1>>, "int16", <<-2>>)
ArrU12 == Arr(<<1, 2>>, "uint8", <<5, 6>>)
ArrEmpty == Arr(<<0>>, "uint8", <<>>)
ArrEmpty02 == Arr(<<0, 2>>, "int16", <<>>)

Arrays == {ArrU2a, ArrI1, ArrU12, ArrEmpty}

RECURSIVE Prod(_)
Prod(shape) == IF shape = <<>> THEN 1 ELSE shape[1] * Prod(Tail(shape))

\* little-endian bytes of one element
ElemToBytes(dtype, v) ==
    IF dtype = "uint8" THEN <<v % 256>>
    ELSE << (v % 65536) % 256, (v % 65536) \div 256 >>

BytesToElem(dtype, b) ==
    IF dtype = "uint8" THEN b[1]
    ELSE LET u == b[1] + 256 * b[2]
         IN IF u >= 32768 THEN u - 65536 ELSE u

RECURSIVE ToBytes(_, _)
ToBytes(dtype, data) ==
    IF data = <<>> THEN <<>>
    ELSE ElemToBytes(dtype, Head(data)) \o ToBytes(dtype, Tail(data))

RECURSIVE FromBytes(_, _)
FromBytes(dtype, bytes) ==
    IF bytes = <<>> THEN <<>>
    ELSE <<BytesToElem(dtype, SubSeq(bytes, 1, ItemSize(dtype)))>>
         \o FromBytes(dtype, SubSeq(bytes, ItemSize(dtype) + 1, Len(bytes)))

Zeros(n) == [i \in 1..n |-> 0]

----------------------------------------------------------------------------
(* Exceptions: the classes the handlers name and the ones the library and  *)
(* the backends raise, with Python's subclass relation.                    *)

Parent(exc) ==
    CASE exc = "ArrayNotFoundError" -> "FileNotFoundError"
      [] exc = "FileNotFoundError" -> "OSError"
      [] exc = "PermissionError" -> "OSError"
      [] exc = "TimeoutError" -> "OSError"
      [] exc = "ConnectionError" -> "OSError"
      [] exc = "FileExistsError" -> "OSError"
      [] exc = "JSONDecodeError" -> "ValueError"
      [] OTHER -> "Exception"

RECURSIVE IsInstance(_, _)
IsInstance(exc, cls) ==
    \/ exc = cls
    \/ exc # "Exception" /\ IsInstance(Parent(exc), cls)

Caught(exc, classes) == \E cls \in classes : IsInstance(exc, cls)

\* a get that does not take "not found" for a miss
GetExceptNoMiss == {"ValueError", "KeyError"}

\* the except clauses of get, exists and delete
GetExcept == {"FileNotFoundError", "ValueError", "KeyError", "ArrayNotFoundError"}
ExistsExcept == {"FileNotFoundError", "ArrayNotFoundError"}

\* a delete that passes over every error of the filesystem
DeleteExceptOSError == {"OSError"}

DeleteExcept == {"FileNotFoundError"}

\* backend failures other than not-found: permission, timeout, network, quota
FaultExcs == {"PermissionError", "TimeoutError", "ConnectionError", "OSError"}

\* what decoding a chunk that is no valid frame raises
CodecErrors == {"ValueError", "RuntimeError"}

NoFault == [at |-> 0, exc |-> "none"]
Faults(n) == {NoFault} \cup [at : 1..n, exc : FaultExcs]
FaultsFor(faulty, n) == IF faulty THEN Faults(n) ELSE {NoFault}

\* values a call returns or raises
RetNone == [kind |-> "none"]
RetBool(b) == [kind |-> "bool", val |-> b]
RetHit(a) == [kind |-> "hit", array |-> a]
Raised(exc) == [kind |-> "raised", exc |-> exc]

----------------------------------------------------------------------------
(* The stores.  fs[root][loc] is what is stored at path loc under root:    *)
(* "local" is the directory base_path names on the local filesystem,       *)
(* "remote" the object store a remote base_path names.  "cwd" is the local *)
(* directory a URI names when it is read as a plain relative path; nothing *)
(* is ever stored there, so fs does not hold it.                           *)

Roots == {"local", "remote"}

ChunkKeys == {"c/0", "c/0/0"}

NoMeta == [kind |-> "none"]
BadJson == [kind |-> "badjson"]
MetaOf(shape, dtype) == [kind |-> "array", shape |-> shape, dtype |-> dtype]

NoChunk == [kind |-> "none"]
Garbage == [kind |-> "garbage"]
Chunk(bytes) == [kind |-> "bytes", bytes |-> bytes]

EmptyRec == [meta |-> NoMeta, chunks |-> [ck \in ChunkKeys |-> NoChunk]]

EmptyStore == [l \in Locs |-> EmptyRec]

\* the chunk key of the one chunk of an array of this shape
ChunkKey(shape) == IF Len(shape) = 1 THEN "c/0" ELSE "c/0/0"

\* the store zarr opens for the path string
ZarrRoot(c) == IF CheckIsRemote(c.base_path) THEN "remote" ELSE "local"

\* the directory shutil.rmtree resolves the path string to
RmtreeRoot(c) == IF c.base_path.scheme = "" THEN "local" ELSE "cwd"

\* a create that leaves what is already stored at the path in place
DeleteDirKeeps(st, loc) == st

\* recursive removal of everything at and under loc
DeleteDir(st, loc) ==
    [l \in Locs |-> IF IsPrefix(loc, l) THEN EmptyRec ELSE st[l]]

PutMeta(st, loc, meta) == [st EXCEPT ![loc].meta = meta]

\* a local directory cannot hold c/0 as a file and as the directory of c/0/0
ChunkConflict(root, rec, ck) ==
    root # "remote" /\ \E o \in ChunkKeys \ {ck} : rec.chunks[o] # NoChunk

\* a write that leaves a chunk that is already stored as it is
WriteChunksIfAbsent(root, st, loc, z, array) ==
    LET ck == ChunkKey(z.shape)
    IN IF Prod(z.shape) = 0 \/ st[loc].chunks[ck] # NoChunk
       THEN [st |-> st, exc |-> "none"]
       ELSE [st |-> [st EXCEPT ![loc].chunks[ck] =
                                   Chunk(ToBytes(z.dtype, array.data))],
             exc |-> "none"]

\* z[:] = array through the handle z: the chunk is encoded with z's dtype
\* under z's chunk key; a chunk equal to the fill value is removed, not
\* written; an array with no elements has no chunk.  Gives the store and
\* the exception raised ("none" when there is none).
WriteChunks(root, st, loc, z, array) ==
    LET ck == ChunkKey(z.shape)
    IN IF Prod(z.shape) = 0 THEN [st |-> st, exc |-> "none"]
       ELSE IF array.data = Zeros(Len(array.data))
       THEN [st |-> [st EXCEPT ![loc].chunks[ck] = NoChunk], exc |-> "none"]
       ELSE IF ChunkConflict(root, st[loc], ck)
       THEN [st |-> st, exc |-> "FileExistsError"]
       ELSE [st |-> [st EXCEPT ![loc].chunks[ck] =
                                   Chunk(ToBytes(z.dtype, array.data))],
             exc |-> "none"]

\* zarr.open_array(mode="r"): the metadata document, or the exception
OpenArray(rec) ==
    IF rec.meta = NoMeta THEN [exc |-> "ArrayNotFoundError"]
    ELSE IF rec.meta = BadJson THEN [exc |-> "JSONDecodeError"]
    ELSE [exc |-> "none", z |-> rec.meta]

\* a read that takes an array with no chunk stored for not found
ReadAllNeedsChunk(rec, z, cerr) ==
    LET c == rec.chunks[ChunkKey(z.shape)]
    IN IF c = NoChunk THEN [exc |-> "KeyError"]
       ELSE IF c = Garbage THEN [exc |-> cerr]
       ELSE IF Len(c.bytes) # Prod(z.shape) * ItemSize(z.dtype)
       THEN [exc |-> "ValueError"]
       ELSE [exc |-> "none",
             array |-> Arr(z.shape, z.dtype, FromBytes(z.dtype, c.bytes))]

\* z[:]: the elements decoded from the chunk with z's shape and dtype; a
\* missing chunk reads as the fill value
ReadAll(rec, z, cerr) ==
    LET n == Prod(z.shape)
        c == rec.chunks[ChunkKey(z.shape)]
    IN IF n = 0 THEN [exc |-> "none", array |-> Arr(z.shape, z.dtype, <<>>)]
       ELSE IF c = NoChunk
       THEN [exc |-> "none", array |-> Arr(z.shape, z.dtype, Zeros(n))]
       ELSE IF c = Garbage THEN [exc |-> cerr]
       ELSE IF Len(c.bytes) # n * ItemSize(z.dtype) THEN [exc |-> "ValueError"]
       ELSE [exc |-> "none",
             array |-> Arr(z.shape, z.dtype, FromBytes(z.dtype, c.bytes))]

\* whether a directory exists at loc: something is stored at or under it
DirExists(st, loc) == \E l \in Locs : IsPrefix(loc, l) /\ st[l] # EmptyRec

----------------------------------------------------------------------------
(* The four operations as functions of the stores.  fault names the        *)
(* backend request of the call that fails (0: none) and with what; each    *)
(* gives the stores after the call and what the call returns or raises.    *)

\* backend requests of set: delete_dir, the metadata document, the chunk
SetRequests(array) == IF Prod(array.shape) = 0 THEN 2 ELSE 3

SetCall(c, f, item_id, array, fault) ==
    LET root == ZarrRoot(c)
        zarr_path == GetShardPath(item_id)
        z == MetaOf(array.shape, array.dtype)
        s1 == DeleteDir(f[root], zarr_path)
        s2 == PutMeta(s1, zarr_path, z)
        w == WriteChunks(root, s2, zarr_path, z, array)
        path == PathStr(c, zarr_path)
    IN CASE fault.at = 1 ->
              [fs |-> f, ret |-> Raised(fault.exc), path |-> path]
         [] fault.at = 2 ->
              [fs |-> [f EXCEPT ![root] = s1], ret |-> Raised(fault.exc),
               path |-> path]
         [] fault.at = 3 ->
              [fs |-> [f EXCEPT ![root] = s2], ret |-> Raised(fault.exc),
               path |-> path]
         [] OTHER ->
              [fs |-> [f EXCEPT ![root] = w.st],
               ret |-> IF w.exc = "none" THEN RetNone ELSE Raised(w.exc),
               path |-> path]

\* backend requests of get: the metadata document, the chunk
GetRequests(rec) ==
    IF OpenArray(rec).exc = "none" /\ Prod(rec.meta.shape) # 0 THEN 2 ELSE 1

\* a get that answers from what this instance wrote last
GetCallIndexed(c, f, item_id, fault, cerr) ==
    [fs |-> f,
     ret |-> IF lastw[item_id].kind = "set"
             THEN [kind |-> "hit", array |-> lastw[item_id].array]
             ELSE RetNone,
     path |-> PathStr(c, GetShardPath(item_id))]

GetCall(c, f, item_id, fault, cerr) ==
    LET zarr_path == GetShardPath(item_id)
        rec == f[ZarrRoot(c)][zarr_path]
        o == OpenArray(rec)
        r == ReadAll(rec, o.z, cerr)
        exc == IF fault.at = 1 THEN fault.exc
               ELSE IF o.exc # "none" THEN o.exc
               ELSE IF fault.at = 2 THEN fault.exc
               ELSE r.exc
    IN [fs |-> f,
        ret |-> IF exc = "none" THEN RetHit(r.array)
                ELSE IF Caught(exc, GetExcept) THEN RetNone
                ELSE Raised(exc),
        path |-> PathStr(c, zarr_path)]

\* an exists that opens the array for appending: a path with nothing at
\* it gets a metadata document
ExistsCallCreates(c, f, item_id, fault) ==
    LET root == ZarrRoot(c)
        zarr_path == GetShardPath(item_id)
        o == OpenArray(f[root][zarr_path])
    IN IF fault.at = 1
       THEN [fs |-> f, ret |-> Raised(fault.exc),
             path |-> PathStr(c, zarr_path)]
       ELSE IF o.exc = "ArrayNotFoundError"
       THEN [fs |-> [f EXCEPT ![root] =
                        PutMeta(f[root], zarr_path, MetaOf(<<0>>, "uint8"))],
             ret |-> RetBool(TRUE),
             path |-> PathStr(c, zarr_path)]
       ELSE [fs |-> f,
             ret |-> IF o.exc = "none" THEN RetBool(TRUE) ELSE Raised(o.exc),
             path |-> PathStr(c, zarr_path)]

ExistsCall(c, f, item_id, fault) ==
    LET zarr_path == GetShardPath(item_id)
        o == OpenArray(f[ZarrRoot(c)][zarr_path])
        exc == IF fault.at = 1 THEN fault.exc ELSE o.exc
    IN [fs |-> f,
        ret |-> IF exc = "none" THEN RetBool(TRUE)
                ELSE IF Caught(exc, ExistsExcept) THEN RetBool(FALSE)
                ELSE Raised(exc),
        path |-> PathStr(c, zarr_path)]

\* a shutil.rmtree that fails is taken to have removed nothing
DeleteCall(c, f, item_id, fault) ==
    LET root == RmtreeRoot(c)
        zarr_path == GetShardPath(item_id)
        exc == IF fault.at = 1 THEN fault.exc
               ELSE IF root = "cwd" \/ ~DirExists(f[root], zarr_path)
               THEN "FileNotFoundError"
               ELSE "none"
    IN IF exc = "none"
       THEN [fs |-> [f EXCEPT ![root] = DeleteDir(f[root], zarr_path)],
             ret |-> RetNone,
             path |-> PathStr(c, zarr_path)]
       ELSE [fs |-> f,
             ret |-> IF Caught(exc, DeleteExcept) THEN RetNone ELSE Raised(exc),
             path |-> PathStr(c, zarr_path)]

----------------------------------------------------------------------------
(* Statistics.  duration_seconds is a difference of two clock readings;    *)
(* the model keeps the key and leaves the value open.                      *)

RetTuple(first, stats) == [kind |-> "tuple", first |-> first, stats |-> stats]

\* array.nbytes
NBytes(array) == Prod(array.shape) * ItemSize(array.dtype)

SetStats(array) ==
    [duration_seconds |-> "duration",
     array_shape |-> array.shape,
     array_dtype |-> array.dtype,
     array_size_bytes |-> NBytes(array)]

\* statistics that report every get as a hit
GetStatsAlwaysHit(result, cache_hit) ==
    IF result # RetNone
    THEN [duration_seconds |-> "duration", cache_hit |-> TRUE,
          array_shape |-> result.array.shape,
          array_dtype |-> result.array.dtype,
          array_size_bytes |-> NBytes(result.array)]
    ELSE [duration_seconds |-> "duration", cache_hit |-> TRUE]

\* result is None (RetNone) or the array read
GetStats(result, cache_hit) ==
    IF result # RetNone
    THEN [duration_seconds |-> "duration", cache_hit |-> cache_hit,
          array_shape |-> result.array.shape,
          array_dtype |-> result.array.dtype,
          array_size_bytes |-> NBytes(result.array)]
    ELSE [duration_seconds |-> "duration", cache_hit |-> cache_hit]

\* set(item_id, array, return_stats)
SetCallStats(c, f, item_id, array, return_stats, fault) ==
    LET r == SetCall(c, f, item_id, array, fault)
    IN IF r.ret # RetNone \/ ~return_stats THEN r
       ELSE [r EXCEPT !.ret = RetTuple(RetNone, SetStats(array))]

\* get(item_id, return_stats)
GetCallStats(c, f, item_id, return_stats, fault, cerr) ==
    LET r == GetCall(c, f, item_id, fault, cerr)
        result == r.ret
        cache_hit == r.ret.kind = "hit"
    IN IF r.ret.kind = "raised" \/ ~return_stats THEN r
       ELSE [r EXCEPT !.ret = RetTuple(result, GetStats(result, cache_hit))]

----------------------------------------------------------------------------
(* Bookkeeping of the model: the call that returned in the latest step,    *)
(* with the stores it started from, and per key its most recent write.     *)

NoArray == Arr(<<>>, "none", <<>>)

\* the most recent write to a key: none or a delete, a set that raised, or
\* a set that returned
NoWrite == [kind |-> "nowrite"]
Failed == [kind |-> "failed"]
Written(array) == [kind |-> "set", array |-> array]

\* a call that returned: before is the stores it started from, fault the
\* backend failure it met, overlap the keys of the calls that ran during it,
\* prevw the most recent write to its key when it started, path the path
\* string it worked on, return_stats whether statistics were asked for
NoPath == [base |-> [scheme |-> "", dir |-> ""], rel |-> <<>>]

Call(op, item_id, array, ret, before, fault) ==
    [op |-> op, key |-> item_id, array |-> array, ret |-> ret,
     before |-> before, fault |-> fault, overlap |-> {}, prevw |-> NoWrite,
     path |-> NoPath, return_stats |-> FALSE]

\* the call a handler's result r makes
CallOf(op, item_id, array, r, before, fault) ==
    [Call(op, item_id, array, r.ret, before, fault) EXCEPT !.path = r.path]

NoCall ==
    Call("none", <<>>, NoArray, RetNone, [r \in Roots |-> EmptyStore], NoFault)

\* the most recent write to the call's key, after the call
Writes(w, call) ==
    IF call.op = "set"
    THEN [w EXCEPT ![call.key] =
              IF call.ret.kind # "raised" THEN Written(call.array) ELSE Failed]
    ELSE IF call.op = "delete" THEN [w EXCEPT ![call.key] = NoWrite]
    ELSE w

\* a caller: where it is in its call, the call's arguments, the handle z
\* of the array it opened or created, the stores when the call started,
\* the calls of others that ran during it, and the calls it has made
Idle ==
    [pc |-> "idle", op |-> "none", key |-> <<>>, array |-> NoArray,
     z |-> NoMeta, before |-> [r \in Roots |-> EmptyStore], overlap |-> {},
     calls |-> 0]

Callers == 1..NumCallers

Init ==
    /\ cache \in { TensorCacheInit(b, o) : b \in BasePaths, o \in StorageOptions }
    /\ fs = [r \in Roots |-> EmptyStore]
    /\ last = NoCall
    /\ lastw = [k \in Keys |-> NoWrite]
    /\ proc = [p \in Callers |-> Idle]

Returns(call) ==
    /\ last' = [call EXCEPT !.prevw = lastw[call.key]]
    /\ lastw' = Writes(lastw, call)
    /\ UNCHANGED cache

----------------------------------------------------------------------------
(* One caller at a time: each call runs from start to return.              *)

Set(K, A, faulty) ==
    \E item_id \in K, array \in A :
      \E fault \in FaultsFor(faulty, SetRequests(array)) :
        LET r == SetCall(cache, fs, item_id, array, fault)
        IN /\ fs' = r.fs
           /\ Returns(CallOf("set", item_id, array, r, fs, fault))
           /\ UNCHANGED proc

Get(K, faulty) ==
    \E item_id \in K, cerr \in CodecErrors :
      \E fault \in FaultsFor(faulty,
                     GetRequests(fs[ZarrRoot(cache)][GetShardPath(item_id)])) :
        LET r == GetCall(cache, fs, item_id, fault, cerr)
        IN /\ fs' = r.fs
           /\ Returns(CallOf("get", item_id, NoArray, r, fs, fault))
           /\ UNCHANGED proc

Exists(K, faulty) ==
    \E item_id \in K :
      \E fault \in FaultsFor(faulty, 1) :
        LET r == ExistsCall(cache, fs, item_id, fault)
        IN /\ fs' = r.fs
           /\ Returns(CallOf("exists", item_id, NoArray, r, fs, fault))
           /\ UNCHANGED proc

Delete(K, faulty) ==
    \E item_id \in K :
      \E fault \in FaultsFor(faulty, 1) :
        LET r == DeleteCall(cache, fs, item_id, fault)
        IN /\ fs' = r.fs
           /\ Returns(CallOf("delete", item_id, NoArray, r, fs, fault))
           /\ UNCHANGED proc

SetWithStats(K, A, faulty) ==
    \E item_id \in K, array \in A, return_stats \in BOOLEAN :
      \E fault \in FaultsFor(faulty, SetRequests(array)) :
        LET r == SetCallStats(cache, fs, item_id, array, return_stats, fault)
        IN /\ fs' = r.fs
           /\ Returns([CallOf("set", item_id, array, r, fs, fault)
                         EXCEPT !.return_stats = return_stats])
           /\ UNCHANGED proc

GetWithStats(K, faulty) ==
    \E item_id \in K, return_stats \in BOOLEAN, cerr \in CodecErrors :
      \E fault \in FaultsFor(faulty,
                     GetRequests(fs[ZarrRoot(cache)][GetShardPath(item_id)])) :
        LET r == GetCallStats(cache, fs, item_id, return_stats, fault, cerr)
        IN /\ fs' = r.fs
           /\ Returns([CallOf("get", item_id, NoArray, r, fs, fault)
                         EXCEPT !.return_stats = return_stats])
           /\ UNCHANGED proc

\* someone else truncates the metadata document of a stored array
CorruptMeta(K) ==
    \E item_id \in K :
      LET root == ZarrRoot(cache)
          zarr_path == GetShardPath(item_id)
      IN /\ fs[root][zarr_path].meta.kind = "array"
         /\ fs' = [fs EXCEPT ![root][zarr_path].meta = BadJson]
         /\ last' = Call("corrupt", item_id, NoArray, RetNone, fs, NoFault)
         /\ UNCHANGED <<cache, lastw, proc>>

\* someone else truncates or overwrites a stored chunk
CorruptChunk(K) ==
    \E item_id \in K, ck \in ChunkKeys :
      LET root == ZarrRoot(cache)
          zarr_path == GetShardPath(item_id)
      IN /\ fs[root][zarr_path].chunks[ck].kind = "bytes"
         /\ fs' = [fs EXCEPT ![root][zarr_path].chunks[ck] = Garbage]
         /\ last' = Call("corrupt", item_id, NoArray, RetNone, fs, NoFault)
         /\ UNCHANGED <<cache, lastw, proc>>

\* a second instance constructed on the same base_path stores an array
OtherInstanceSet(K, A) ==
    \E item_id \in K, array \in A :
      LET other == TensorCacheInit(cache.base_path, cache.storage_options)
          r == SetCall(other, fs, item_id, array, NoFault)
      IN /\ fs' = r.fs
         /\ last' = Call("other_set", item_id, array, r.ret, fs, NoFault)
         /\ UNCHANGED <<cache, lastw, proc>>

\* someone else removes a stored record from the backend
ExternalRemove(K) ==
    \E item_id \in K :
      LET root == ZarrRoot(cache)
          zarr_path == GetShardPath(item_id)
      IN /\ fs[root][zarr_path] # EmptyRec
         /\ fs' = [fs EXCEPT ![root] = DeleteDir(fs[root], zarr_path)]
         /\ last' = Call("ext_remove", item_id, NoArray, RetNone, fs, NoFault)
         /\ UNCHANGED <<cache, lastw, proc>>

Next ==
    \/ Set(Keys, Arrays, FALSE)
    \/ Get(Keys, FALSE)
    \/ Exists(Keys, FALSE)
    \/ Delete(Keys, FALSE)

Spec == Init /\ [][Next]_vars

----------------------------------------------------------------------------
(* One caller at a time on a backend that can fail and whose objects       *)
(* someone else can damage.                                                *)

EnvKeys == {KeyA}
EnvArrays == {ArrU2a, ArrI1, ArrEmpty}

NextEnv ==
    \/ Set(EnvKeys, EnvArrays, TRUE)
    \/ Get(EnvKeys, TRUE)
    \/ Exists(EnvKeys, TRUE)
    \/ Delete(EnvKeys, TRUE)
    \/ CorruptMeta(EnvKeys)
    \/ CorruptChunk(EnvKeys)
    \/ OtherInstanceSet(EnvKeys, EnvArrays)
    \/ ExternalRemove(EnvKeys)

SpecEnv == Init /\ [][NextEnv]_vars

----------------------------------------------------------------------------
(* One caller at a time asking for statistics or not, on a backend that    *)
(* can fail and whose objects someone else can damage.                     *)

StatsKeys == {KeyA}
StatsArrays == {ArrU2a, ArrEmpty, ArrEmpty02}

NextStats ==
    \/ SetWithStats(StatsKeys, StatsArrays, TRUE)
    \/ GetWithStats(StatsKeys, TRUE)
    \/ Exists(StatsKeys, FALSE)
    \/ Delete(StatsKeys, FALSE)
    \/ CorruptMeta(StatsKeys)
    \/ CorruptChunk(StatsKeys)

SpecStats == Init /\ [][NextStats]_vars

----------------------------------------------------------------------------
(* Concurrent callers of one cache.  A call is a sequence of backend       *)
(* requests, each atomic at the backend: set clears the path              *)
(* (overwrite=True), writes the metadata document, then writes the chunk   *)
(* through the handle it created; get reads the metadata document, then    *)
(* the chunk; exists reads the metadata document; delete is one rmtree.    *)

ConcKeys == Keys
ConcArrays == {ArrU2a, ArrU2b, ArrI1}

RECURSIVE Sum(_, _)
Sum(f, S) ==
    IF S = {} THEN 0
    ELSE LET x == CHOOSE y \in S : TRUE IN f[x] + Sum(f, S \ {x})

\* calls begun so far
CallsMade == Sum([q \in Callers |-> proc[q].calls], Callers)

Running(p) == proc[p].pc # "idle"

Tag(q) ==
    [op |-> q.op, key |-> q.key, shape |-> q.array.shape,
     dtype |-> q.array.dtype]

FirstStep(op) ==
    CASE op = "set" -> "set_clear"
      [] op = "get" -> "get_open"
      [] op = "exists" -> "exists_open"
      [] op = "delete" -> "delete_rmtree"

Begin(p) ==
    /\ ~Running(p)
    /\ CallsMade < MaxCalls
    /\ \E op \in {"set", "get", "exists", "delete"}, item_id \in ConcKeys,
          array \in ConcArrays :
         LET a == IF op = "set" THEN array ELSE NoArray
             me == [pc |-> FirstStep(op), op |-> op, key |-> item_id,
                    array |-> a, z |-> NoMeta, before |-> fs,
                    overlap |-> { Tag(proc[q]) :
                                    q \in {r \in Callers \ {p} : Running(r)} },
                    calls |-> proc[p].calls + 1]
         IN /\ op # "set" => array = ArrU2a
            /\ proc' = [q \in Callers |->
                         IF q = p THEN me
                         ELSE IF Running(q)
                         THEN [proc[q] EXCEPT !.overlap = @ \cup {Tag(me)}]
                         ELSE proc[q]]
    /\ last' = NoCall
    /\ UNCHANGED <<cache, fs, lastw>>

\* the call of p returns ret (or raises it)
Return(p, ret) ==
    LET me == proc[p]
        call == [Call(me.op, me.key, me.array, ret, me.before, NoFault)
                   EXCEPT !.overlap = me.overlap,
                          !.path = PathStr(cache, GetShardPath(me.key))]
    IN /\ Returns(call)
       /\ proc' = [proc EXCEPT ![p] = [Idle EXCEPT !.calls = me.calls]]

\* set, zarr.create_array with overwrite=True: what is stored is removed
SetClear(p) ==
    /\ proc[p].pc = "set_clear"
    /\ fs' = [fs EXCEPT ![ZarrRoot(cache)] =
                 DeleteDir(@, GetShardPath(proc[p].key))]
    /\ proc' = [proc EXCEPT ![p].pc = "set_meta"]
    /\ last' = NoCall
    /\ UNCHANGED <<cache, lastw>>

\* set, zarr.create_array: the metadata document is written
SetMeta(p) ==
    /\ proc[p].pc = "set_meta"
    /\ LET z == MetaOf(proc[p].array.shape, proc[p].array.dtype)
       IN /\ fs' = [fs EXCEPT ![ZarrRoot(cache)] =
                       PutMeta(@, GetShardPath(proc[p].key), z)]
          /\ proc' = [proc EXCEPT ![p].pc = "set_data", ![p].z = z]
    /\ last' = NoCall
    /\ UNCHANGED <<cache, lastw>>

\* set, z[:] = array, and the return
SetData(p) ==
    /\ proc[p].pc = "set_data"
    /\ LET root == ZarrRoot(cache)
           w == WriteChunks(root, fs[root], GetShardPath(proc[p].key),
                            proc[p].z, proc[p].array)
       IN /\ fs' = [fs EXCEPT ![root] = w.st]
          /\ Return(p, IF w.exc = "none" THEN RetNone ELSE Raised(w.exc))

\* get, zarr.open_array: a handle, or the return when there is no array
GetOpen(p) ==
    /\ proc[p].pc = "get_open"
    /\ LET o == OpenArray(fs[ZarrRoot(cache)][GetShardPath(proc[p].key)])
       IN IF o.exc = "none"
          THEN /\ proc' = [proc EXCEPT ![p].pc = "get_read", ![p].z = o.z]
               /\ last' = NoCall
               /\ UNCHANGED <<lastw, cache>>
          ELSE Return(p, IF Caught(o.exc, GetExcept) THEN RetNone
                         ELSE Raised(o.exc))
    /\ UNCHANGED fs

\* get, result = z[:], and the return
GetRead(p) ==
    /\ proc[p].pc = "get_read"
    /\ \E cerr \in CodecErrors :
         LET r == ReadAll(fs[ZarrRoot(cache)][GetShardPath(proc[p].key)],
                          proc[p].z, cerr)
         IN Return(p, IF r.exc = "none" THEN RetHit(r.array)
                      ELSE IF Caught(r.exc, GetExcept) THEN RetNone
                      ELSE Raised(r.exc))
    /\ UNCHANGED fs

ExistsOpen(p) ==
    /\ proc[p].pc = "exists_open"
    /\ Return(p, ExistsCall(cache, fs, proc[p].key, NoFault).ret)
    /\ UNCHANGED fs

DeleteRmtree(p) ==
    /\ proc[p].pc = "delete_rmtree"
    /\ LET r == DeleteCall(cache, fs, proc[p].key, NoFault)
       IN /\ fs' = r.fs
          /\ Return(p, r.ret)

NextConc ==
    \E p \in Callers :
      \/ Begin(p)
      \/ SetClear(p)
      \/ SetMeta(p)
      \/ SetData(p)
      \/ GetOpen(p)
      \/ GetRead(p)
      \/ ExistsOpen(p)
      \/ DeleteRmtree(p)

SpecConc == Init /\ [][NextConc]_vars

----------------------------------------------------------------------------
(* Properties of calls made one at a time (Spec) *)

Root == ZarrRoot(cache)

\* what is stored at the key's path
RecordAt(f, item_id) == f[Root][GetShardPath(item_id)]

\* what set(item_id, array) stores at the path when nothing was there
FreshRecord(item_id, array) ==
    RecordAt(SetCall(cache, [r \in Roots |-> EmptyStore], item_id, array,
                     NoFault).fs, item_id)

GetNow(item_id) == GetCall(cache, fs, item_id, NoFault, "ValueError").ret
ExistsNow(item_id) == ExistsCall(cache, fs, item_id, NoFault).ret

\* C1: when set(k, B) returns and the write to k before it was set(k, A),
\* get(k) returns B with B's shape, dtype and elements, and what is stored
\* at k's path is what set(k, B) stores on an empty path: nothing of A.
C1_Overwrite ==
    (last.op = "set" /\ last.ret = RetNone /\ last.prevw.kind = "set")
    => /\ GetNow(last.key) = RetHit(last.array)
       /\ RecordAt(fs, last.key) = FreshRecord(last.key, last.array)

C1_Witness ==
    /\ last.op = "set" /\ last.ret = RetNone
    /\ last.prevw = Written(ArrU12)
    /\ last.array = ArrI1
    /\ RecordAt(last.before, last.key).chunks["c/0/0"] # NoChunk

\* C2: a get(k) whose most recent preceding write to k is a set(k, A) that
\* returned, with no delete(k) since, returns a hit equal to A.
C2_RoundTrip ==
    (last.op = "get" /\ last.prevw.kind = "set")
    => last.ret = RetHit(last.prevw.array)

\* C3: get(k) on a key with no record at its path returns None, and
\* exists(k) returns False; neither raises.
C3_Miss ==
    (last.op \in {"get", "exists"}
        /\ RecordAt(last.before, last.key).meta = NoMeta)
    => last.ret = (IF last.op = "get" THEN RetNone ELSE RetBool(FALSE))

C3_Witness ==
    /\ last.op = "get"
    /\ RecordAt(last.before, last.key) = EmptyRec
    /\ last.ret = RetNone
    /\ \E k \in Keys : RecordAt(fs, k) # EmptyRec

\* C6: after set(k, A) then delete(k) has returned, exists(k) is False and
\* get(k) is None, whatever base_path the cache was constructed on.
C6_DeleteRemoves ==
    (last.op = "delete" /\ last.ret = RetNone /\ last.prevw.kind = "set")
    => /\ ExistsNow(last.key) = RetBool(FALSE)
       /\ GetNow(last.key) = RetNone

\* C7: delete(k) does not raise; on a key with no record it leaves the
\* stores as they were; a second delete(k) changes nothing more; and
\* exists(k) is False after it.
C7_IdempotentDelete ==
    last.op = "delete"
    => /\ last.ret = RetNone
       /\ RecordAt(last.before, last.key) = EmptyRec => fs = last.before
       /\ DeleteCall(cache, fs, last.key, NoFault).fs = fs
       /\ ExistsNow(last.key) = RetBool(FALSE)

----------------------------------------------------------------------------
(* Properties of calls on a backend that can fail or hold damaged objects  *)
(* (SpecEnv)                                                               *)

\* a record is stored but its metadata document or its chunk does not decode
Undecodable(rec) ==
    \/ rec.meta = BadJson
    \/ /\ rec.meta.kind = "array"
       /\ Prod(rec.meta.shape) # 0
       /\ LET c == rec.chunks[ChunkKey(rec.meta.shape)]
          IN \/ c = Garbage
             \/ /\ c.kind = "bytes"
                /\ Len(c.bytes) # Prod(rec.meta.shape) * ItemSize(rec.meta.dtype)

\* C4: a get(k) on a record that is stored but does not decode raises; it
\* does not return None.
C4_CorruptionRaises ==
    (last.op = "get" /\ Undecodable(RecordAt(last.before, last.key)))
    => last.ret.kind = "raised"

\* C5: in the state a get(k) ran in, exists(k) returns True exactly when
\* the get returned a hit and False exactly when it returned None.
C5_ExistsAgreesWithGet ==
    (last.op = "get" /\ last.fault = NoFault)
    => LET e == ExistsCall(cache, last.before, last.key, NoFault).ret
       IN /\ e = RetBool(TRUE) <=> last.ret.kind = "hit"
          /\ e = RetBool(FALSE) <=> last.ret = RetNone

\* C8: a call of set, get, exists or delete that meets a backend failure
\* other than not-found raises that failure to its caller.
C8_FailurePropagates ==
    (last.op \in {"set", "get", "exists", "delete"} /\ last.fault # NoFault)
    => last.ret = Raised(last.fault.exc)

C8_Witness ==
    /\ last.op = "get"
    /\ last.fault = [at |-> 2, exc |-> "PermissionError"]
    /\ last.ret = Raised("PermissionError")
    /\ RecordAt(fs, last.key).meta.kind = "array"

----------------------------------------------------------------------------
(* Properties of concurrent calls (SpecConc) *)

AllReturned == \A p \in Callers : ~Running(p)

\* the calls that ran during the last call were sets on its key
OnlySetsOnKey(call) ==
    /\ call.overlap # {}
    /\ \A o \in call.overlap : o.op = "set" /\ o.key = call.key

SameLayout(call) ==
    \A o \in call.overlap :
      o.shape = call.array.shape /\ o.dtype = call.array.dtype

Alone(call) ==
    CASE call.op = "set" ->
           SetCall(cache, call.before, call.key, call.array, NoFault)
      [] call.op = "get" ->
           GetCall(cache, call.before, call.key, NoFault, "ValueError")
      [] call.op = "exists" ->
           ExistsCall(cache, call.before, call.key, NoFault)
      [] call.op = "delete" ->
           DeleteCall(cache, call.before, call.key, NoFault)

\* C10: a call that ran concurrently with calls on other keys only returns
\* what it returns when run alone, and leaves at its key's path what it
\* leaves when run alone.
C10_DistinctKeysIndependent ==
    (/\ last.op \in {"set", "get", "exists", "delete"}
     /\ last.overlap # {}
     /\ \A o \in last.overlap : o.key # last.key)
    => /\ last.ret = Alone(last).ret
       /\ RecordAt(fs, last.key) = RecordAt(Alone(last).fs, last.key)

----------------------------------------------------------------------------
(* Keys and their paths, calls made one at a time (Spec) *)

\* C11: a set(k, .) or delete(k) leaves what is stored at the path of every
\* other key as it was, so exists and get on the other keys answer as they
\* did before the call.
C11_NoCrossKeyEffect ==
    last.op \in {"set", "delete"}
    => \A k \in Keys \ {last.key} :
         /\ RecordAt(fs, k) = RecordAt(last.before, k)
         /\ GetNow(k) = GetCall(cache, last.before, k, NoFault, "ValueError").ret
         /\ ExistsNow(k) = ExistsCall(cache, last.before, k, NoFault).ret

----------------------------------------------------------------------------
(* The instance and the backend others act on (SpecEnv) *)

\* C12: no step changes the fields of the instance, which are base_path,
\* storage_options and _is_remote and nothing else; and the get(k) or
\* exists(k) that comes next after another instance on the same base_path
\* stored A at k returns A (True), the one that comes next after someone
\* removed the record of k returns None (False), whatever this instance
\* wrote or read before.
C12_Stateless ==
    [][ /\ cache' = cache
        /\ DOMAIN cache = {"base_path", "storage_options", "is_remote"}
        /\ (/\ last'.op \in {"get", "exists"}
            /\ last'.fault = NoFault
            /\ last'.key = last.key
            /\ last.op = "other_set" /\ last.ret = RetNone)
           => last'.ret = (IF last'.op = "get" THEN RetHit(last.array)
                           ELSE RetBool(TRUE))
        /\ (/\ last'.op \in {"get", "exists"}
            /\ last'.fault = NoFault
            /\ last'.key = last.key
            /\ last.op = "ext_remove")
           => last'.ret = (IF last'.op = "get" THEN RetNone
                           ELSE RetBool(FALSE)) ]_vars

\* a hit on a key this instance never stored, on a base path where its
\* delete removes what it stored
C12_Witness ==
    /\ last.op = "get" /\ last.ret.kind = "hit"
    /\ last.prevw = NoWrite
    /\ cache.base_path.scheme = ""

\* C13: set, get, exists and delete on key k work on one path string, made
\* of base_path and k alone, whatever was called before and whatever array
\* is stored: base_path, a first shard of two characters, a second shard of
\* two characters, these four being the first four of the hexadecimal
\* sha256 of k, and k with ".zarr" put after it; and the record a set
\* writes, a get returns and an exists reports is the one at that path.
C13_PathCoherence ==
    last.op \in {"set", "get", "exists", "delete"}
    => LET k == last.key
           p == last.path.rel
           rec == fs[Root][p]
       IN /\ last.path.base = cache.base_path
          /\ Len(p) = 2 + Len(k)
          /\ Len(p[1]) = 2 /\ Len(p[2]) = 2
          /\ p[1] \o p[2] = SubSeq(HexHash(k), 1, 4)
          /\ SubSeq(p, 3, Len(p) - 1) = Front(k)
          /\ p[Len(p)] = Last(k) \o <<".zarr">>
          /\ (last.op = "set" /\ last.ret = RetNone)
             => rec.meta = MetaOf(last.array.shape, last.array.dtype)
          /\ (last.op = "get" /\ last.ret.kind = "hit")
             => rec.meta = MetaOf(last.ret.array.shape, last.ret.array.dtype)
          /\ (last.op = "exists")
             => (last.ret = RetBool(TRUE) <=> rec.meta.kind = "array")

\* a delete and a get of the key with a separator, after sets of other
\* arrays on other keys
C13_Witness ==
    /\ last.op \in {"delete", "get"}
    /\ last.key = KeyNested
    /\ last.path.rel =
         << <<"c", "a">>, <<"9", "7">>, <<"a", ".zarr">>, <<"138677", ".zarr">> >>
    /\ lastw[KeyB] = Written(ArrU12)
    /\ cache.base_path.scheme = "s3"

\* C16: the path a call on key k works on is not the path of another key,
\* does not lie under the path of another key and has the path of no other
\* key under it.
C16_DistinctLocations ==
    last.op \in {"set", "get", "exists", "delete"}
    => \A k2 \in Keys \ {last.key} :
         LET p == last.path.rel
             q == GetShardPath(k2)
         IN ~IsPrefix(p, q) /\ ~IsPrefix(q, p)

\* C17: a get or an exists, whether it hits, misses or raises, on a record
\* that is whole, damaged or not there, leaves every store as it was when
\* the call started: nothing is created, changed or removed at any path.
C17_ReadOnly ==
    last.op \in {"get", "exists"} => fs = last.before

\* a get that raised on a damaged chunk
C17_Witness ==
    /\ last.op = "get"
    /\ last.ret = Raised("RuntimeError")
    /\ RecordAt(fs, last.key).chunks["c/0"] = Garbage

----------------------------------------------------------------------------
(* Empty arrays and statistics (SpecStats) *)

IsEmpty(array) == Prod(array.shape) = 0

\* the array a get returned, alone or with statistics
Result(ret) == IF ret.kind = "tuple" THEN ret.first ELSE ret

ArrayKeys == {"array_shape", "array_dtype", "array_size_bytes"}

\* C14: when set(k, E) has returned for an array E with a dimension of size
\* 0, exists(k) is True and get(k) is a hit with E's shape and dtype and no
\* elements; and a get(k) that meets no failure on the record set(k, E)
\* stored returns that array, with cache_hit True when statistics are asked
\* for.
C14_EmptyIsHit ==
    /\ (last.op = "set" /\ last.ret.kind # "raised" /\ IsEmpty(last.array))
       => /\ ExistsNow(last.key) = RetBool(TRUE)
          /\ GetNow(last.key) =
                RetHit(Arr(last.array.shape, last.array.dtype, <<>>))
    /\ (/\ last.op = "get" /\ last.fault = NoFault
        /\ last.prevw.kind = "set" /\ IsEmpty(last.prevw.array)
        /\ RecordAt(last.before, last.key)
             = FreshRecord(last.key, last.prevw.array))
       => /\ Result(last.ret) = RetHit(last.prevw.array)
          /\ last.return_stats
             => /\ last.ret.kind = "tuple"
                /\ last.ret.stats.cache_hit
                /\ last.ret.stats.array_shape = last.prevw.array.shape
                /\ last.ret.stats.array_size_bytes = 0

C14_Witness ==
    /\ last.op = "get" /\ last.return_stats
    /\ last.prevw = Written(ArrEmpty02)
    /\ last.ret.kind = "tuple"
    /\ last.ret.first = RetHit(ArrEmpty02)

\* C15: a get that asks for statistics and does not raise returns the pair
\* of its result and the statistics, in which cache_hit is True exactly
\* when the result is an array and array_shape, array_dtype and
\* array_size_bytes are there exactly then, with the values of the array;
\* a set that asks for statistics and does not raise returns the pair of
\* None and the statistics; and the call returns the result, raises or not
\* and leaves the stores as the same call without statistics does when it
\* meets the same failures.
C15_StatsConsistent ==
    (last.op \in {"set", "get"} /\ last.return_stats)
    => LET st == last.ret.stats
       IN /\ \E cerr \in CodecErrors :
               LET plain ==
                     IF last.op = "set"
                     THEN SetCallStats(cache, last.before, last.key,
                                       last.array, FALSE, last.fault)
                     ELSE GetCallStats(cache, last.before, last.key, FALSE,
                                       last.fault, cerr)
               IN /\ fs = plain.fs
                  /\ Result(last.ret) = plain.ret
          /\ last.ret.kind \in {"tuple", "raised"}
          /\ last.ret.kind = "tuple" =>
               /\ "duration_seconds" \in DOMAIN st
               /\ last.op = "set" =>
                    /\ last.ret.first = RetNone
                    /\ DOMAIN st = {"duration_seconds"} \cup ArrayKeys
                    /\ st.array_shape = last.array.shape
                    /\ st.array_dtype = last.array.dtype
                    /\ st.array_size_bytes = NBytes(last.array)
               /\ last.op = "get" =>
                    /\ last.ret.first.kind \in {"hit", "none"}
                    /\ st.cache_hit <=> last.ret.first.kind = "hit"
                    /\ last.ret.first.kind = "hit" =>
                         /\ ArrayKeys \subseteq DOMAIN st
                         /\ st.array_shape = last.ret.first.array.shape
                         /\ st.array_dtype = last.ret.first.array.dtype
                         /\ st.array_size_bytes = NBytes(last.ret.first.array)
                    /\ last.ret.first.kind = "none" =>
                         ArrayKeys \cap DOMAIN st = {}

\* a get with statistics that misses on a record someone damaged, after a
\* get with statistics could hit on it
C15_Witness ==
    /\ last.op = "get" /\ last.return_stats
    /\ last.ret.kind = "tuple"
    /\ last.ret.first = RetNone
    /\ ~last.ret.stats.cache_hit
    /\ RecordAt(fs, last.key).meta = BadJson

====
